---- MODULE Spec2Model ----
(***************************************************************************)
(* Model of the corpus vectorization core of the NLP microservice          *)
(* (src/server.py): corpus loading, tokenization, vocabulary, TF / DF /    *)
(* IDF / TF-IDF computed once at import time, and the request handlers     *)
(* home, tf_idf, bag_of_words and lsa that read that state.                *)
(*                                                                         *)
(* Strings are sequences of one-character strings.  Reals are kept exact:  *)
(* a quotient a / b is the pair <<a, b>>, and ln(p / q) + 1 is the pair    *)
(* <<p, q>> of the logarithm's argument.                                   *)
(***************************************************************************)
EXTENDS Integers, Sequences, FiniteSets, TLC

VARIABLES pc, file, docs, lineno, error,
          documents, tokens, vocabulary, doc_count, word_count,
          tf, df, idf, tfidf_matrix,
          request, response, invoked

vars == <<pc, file, docs, lineno, error, documents, tokens, vocabulary, doc_count,
          word_count, tf, df, idf, tfidf_matrix, request, response, invoked>>

state == <<documents, tokens, vocabulary, doc_count, word_count,
           tf, df, idf, tfidf_matrix>>

(* ---------------------------- bounds ----------------------------------- *)
\* lines the corpus file may hold
MaxLines == 2
\* characters of one line of the corpus file, line terminator excluded
MaxLineLen == 4
\* characters of the text of a bag-of-words request
MaxTextLen == 2
\* largest n_components of an lsa request
MaxComponents == 2

\* characters of the modelled texts: a lowercase letter, its uppercase, a blank
Alphabet == {"a", "A", " "}

SeqsUpTo(S, n) == UNION {[1..k -> S] : k \in 0..n}

Min(a, b) == IF a <= b THEN a ELSE b

(* ------------------------ str methods ---------------------------------- *)
\* str.isspace of one character
isspace(c) == c \in {" ", "\n"}

\* str.lower
lower(s) == [k \in 1..Len(s) |-> IF s[k] = "A" THEN "a" ELSE s[k]]

RECURSIVE lstrip(_)
lstrip(s) == IF s = <<>> THEN <<>>
             ELSE IF isspace(Head(s)) THEN lstrip(Tail(s)) ELSE s

RECURSIVE rstrip(_)
rstrip(s) == IF s = <<>> THEN <<>>
             ELSE IF isspace(s[Len(s)]) THEN rstrip(SubSeq(s, 1, Len(s) - 1))
             ELSE s

\* str.strip()
strip(s) == rstrip(lstrip(s))

\* str.split(): runs of whitespace separate the words, no empty words
RECURSIVE splitFrom(_, _, _)
splitFrom(s, word, acc) ==
    IF s = <<>> THEN (IF word = <<>> THEN acc ELSE Append(acc, word))
    ELSE IF isspace(Head(s))
         THEN splitFrom(Tail(s), <<>>, IF word = <<>> THEN acc ELSE Append(acc, word))
         ELSE splitFrom(Tail(s), Append(word, Head(s)), acc)

split(s) == splitFrom(s, <<>>, <<>>)

\* list.count(x)
RECURSIVE count(_, _)
count(l, x) == IF l = <<>> THEN 0
               ELSE (IF Head(l) = x THEN 1 ELSE 0) + count(Tail(l), x)

\* x in l
contains(l, x) == \E k \in 1..Len(l) : l[k] = x

(* ------------------------ load_corpus ---------------------------------- *)
\* the document load_corpus returns when the file is not found; its four
\* words are kept as four opaque non-blank characters
Placeholder == <<"fajl", " ", "korpus_dmitrij.txt", " ", "ne", " ", "najden">>

\* open(...): the file opens, is missing, or cannot be opened otherwise
OpenFile ==
    /\ pc = "open"
    /\ \E outcome \in {"ok", "FileNotFoundError", "PermissionError"} :
         /\ file' = outcome
         /\ CASE outcome = "ok" ->
                  /\ pc' = "read"
                  /\ UNCHANGED <<documents, error>>
             [] outcome = "FileNotFoundError" ->
                  /\ pc' = "tokenize"
                  /\ documents' = <<Placeholder>>
                  /\ UNCHANGED error
             [] OTHER ->
                  /\ pc' = "crashed"
                  /\ error' = outcome
                  /\ UNCHANGED documents
    /\ UNCHANGED <<docs, lineno, tokens, vocabulary, doc_count, word_count,
                   tf, df, idf, tfidf_matrix, request, response, invoked>>

\* ReadLine without the "if line" test: blank lines become documents
ReadLineKeepBlank ==
    /\ pc = "read"
    /\ lineno < MaxLines
    /\ \E raw \in SeqsUpTo(Alphabet, MaxLineLen) :
         docs' = Append(docs, lower(strip(raw \o <<"\n">>)))
    /\ lineno' = lineno + 1
    /\ UNCHANGED <<pc, file, error, documents, tokens, vocabulary, doc_count,
                   word_count, tf, df, idf, tfidf_matrix, request, response,
                   invoked>>

\* one iteration of "for line in f"
ReadLine ==
    /\ pc = "read"
    /\ lineno < MaxLines
    /\ \E raw \in SeqsUpTo(Alphabet, MaxLineLen) :
         LET line == lower(strip(raw \o <<"\n">>))
         IN  docs' = IF line /= <<>> THEN Append(docs, line) ELSE docs
    /\ lineno' = lineno + 1
    /\ UNCHANGED <<pc, file, error, documents, tokens, vocabulary, doc_count,
                   word_count, tf, df, idf, tfidf_matrix, request, response,
                   invoked>>

\* the bytes of the next line are not valid UTF-8
ReadLineError ==
    /\ pc = "read"
    /\ lineno < MaxLines
    /\ pc' = "crashed"
    /\ error' = "UnicodeDecodeError"
    /\ file' = "UnicodeDecodeError"
    /\ UNCHANGED <<docs, lineno, documents, tokens, vocabulary, doc_count,
                   word_count, tf, df, idf, tfidf_matrix, request, response,
                   invoked>>

\* end of file: return docs, and documents = load_corpus()
ReturnDocs ==
    /\ pc = "read"
    /\ pc' = "tokenize"
    /\ documents' = docs
    /\ docs' = <<>>
    /\ lineno' = 0
    /\ file' = "closed"
    /\ UNCHANGED <<error, tokens, vocabulary, doc_count, word_count,
                   tf, df, idf, tfidf_matrix, request, response, invoked>>

(* ------------------------ preprocessing -------------------------------- *)
\* tokens.append(doc.split()) for each document
Tokenize ==
    /\ pc = "tokenize"
    /\ tokens' = [i \in 1..Len(documents) |-> split(documents[i])]
    /\ pc' = "vocabulary"
    /\ UNCHANGED <<file, docs, lineno, error, documents, vocabulary, doc_count,
                   word_count, tf, df, idf, tfidf_matrix, request, response,
                   invoked>>

\* addWords without the "word not in vocabulary" test
RECURSIVE addWordsNoTest(_, _)
addWordsNoTest(voc, doc) ==
    IF doc = <<>> THEN voc ELSE addWordsNoTest(Append(voc, Head(doc)), Tail(doc))

\* the inner loop over the words of one document
RECURSIVE addWords(_, _)
addWords(voc, doc) ==
    IF doc = <<>> THEN voc
    ELSE addWords(IF ~contains(voc, Head(doc)) THEN Append(voc, Head(doc)) ELSE voc,
                  Tail(doc))

\* the outer loop over the tokenized documents
RECURSIVE buildVocabulary(_, _)
buildVocabulary(voc, toks) ==
    IF toks = <<>> THEN voc
    ELSE buildVocabulary(addWords(voc, Head(toks)), Tail(toks))

BuildVocabulary ==
    /\ pc = "vocabulary"
    /\ vocabulary' = buildVocabulary(<<>>, tokens)
    /\ doc_count' = Len(tokens)
    /\ word_count' = Len(vocabulary')
    /\ pc' = "tf"
    /\ UNCHANGED <<file, docs, lineno, error, documents, tokens,
                   tf, df, idf, tfidf_matrix, request, response, invoked>>

(* ------------------------ TF-IDF --------------------------------------- *)
\* tfEntry dividing by the vocabulary size instead of the document length
tfEntryByVocabulary(i, j) == <<count(tokens[i], vocabulary[j]), word_count>>

\* tokens[i].count(word) / len(tokens[i]), the quotient kept as a pair
tfEntry(i, j) == <<count(tokens[i], vocabulary[j]), Len(tokens[i])>>

\* df[j] after the rows 1..i of the loop: df[j] += 1 when word in tokens[i]
RECURSIVE dfAfter(_, _)
dfAfter(i, j) ==
    IF i = 0 THEN 0
    ELSE dfAfter(i - 1, j) + (IF contains(tokens[i], vocabulary[j]) THEN 1 ELSE 0)

\* df[j] adding the occurrences of the word instead of 1 per document
RECURSIVE dfOccurrences(_, _)
dfOccurrences(i, j) ==
    IF i = 0 THEN 0 ELSE dfOccurrences(i - 1, j) + count(tokens[i], vocabulary[j])

dfEntryOccurrences(j) == dfOccurrences(doc_count, j)

dfEntry(j) == dfAfter(doc_count, j)

\* the division of the loop body raises ZeroDivisionError
dividesByZero == \E i \in 1..doc_count : word_count > 0 /\ Len(tokens[i]) = 0

\* tf = np.zeros(...), df = np.zeros(...) and the two nested loops
ComputeTfDf ==
    /\ pc = "tf"
    /\ IF dividesByZero
       THEN /\ pc' = "crashed"
            /\ error' = "ZeroDivisionError"
            /\ UNCHANGED <<tf, df>>
       ELSE /\ tf' = [i \in 1..doc_count |-> [j \in 1..word_count |-> tfEntry(i, j)]]
            /\ df' = [j \in 1..word_count |-> dfEntry(j)]
            /\ pc' = "idf"
            /\ UNCHANGED error
    /\ UNCHANGED <<file, docs, lineno, documents, tokens, vocabulary, doc_count,
                   word_count, idf, tfidf_matrix, request, response, invoked>>

\* idfEntry with the quotient inverted
idfEntryInverted(j) == <<df[j] + 1, doc_count + 1>>

\* np.log((doc_count + 1) / (df + 1)) + 1, kept as the argument of the logarithm
idfEntry(j) == <<doc_count + 1, df[j] + 1>>

\* idf = ..., tfidf_matrix = tf * idf (idf broadcast over the rows)
ComputeIdf ==
    /\ pc = "idf"
    /\ idf' = [j \in 1..word_count |-> idfEntry(j)]
    /\ tfidf_matrix' = [i \in 1..doc_count |->
                           [j \in 1..word_count |-> [tf |-> tf[i][j], idf |-> idf'[j]]]]
    /\ pc' = "ready"
    /\ UNCHANGED <<file, docs, lineno, error, documents, tokens, vocabulary, doc_count,
                   word_count, tf, df, request, response, invoked>>

(* ------------------------ request handlers ----------------------------- *)
\* no request is being served
NoRequest == [op |-> "none"]
NoResponse == [status |-> 0, body |-> [none |-> TRUE]]

\* the response of the served request goes out to the caller
Deliver ==
    /\ pc = "ready"
    /\ request /= NoRequest
    /\ request' = NoRequest
    /\ response' = NoResponse
    /\ invoked' = <<>>
    /\ UNCHANGED <<pc, file, docs, lineno, error, state>>

\* GET /
home ==
    /\ pc = "ready"
    /\ request = NoRequest
    /\ request' = [op |-> "home"]
    /\ response' = [status |-> 200,
                    body |-> [status |-> "ready", documents_loaded |-> Len(documents)]]
    /\ invoked' = <<>>
    /\ UNCHANGED <<pc, file, docs, lineno, error, state>>

\* POST /tf-idf
tf_idf ==
    /\ pc = "ready"
    /\ request = NoRequest
    /\ request' = [op |-> "tf_idf"]
    /\ response' = [status |-> 200, body |-> [matrix |-> tfidf_matrix]]
    /\ invoked' = <<>>
    /\ UNCHANGED <<pc, file, docs, lineno, error, state>>

\* bowVector without text.lower()
bowVectorNoLower(text) ==
    LET words == split(text)
    IN  [i \in 1..word_count |-> IF contains(words, vocabulary[i]) THEN 1 ELSE 0]

\* the vector bag_of_words builds for a text
bowVector(text) ==
    LET words == split(lower(text))
    IN  [i \in 1..word_count |-> IF contains(words, vocabulary[i]) THEN 1 ELSE 0]

\* GET /bag-of-words
bag_of_words ==
    /\ pc = "ready"
    /\ request = NoRequest
    /\ \E text \in SeqsUpTo(Alphabet, MaxTextLen) :
         /\ request' = [op |-> "bag_of_words", text |-> text]
         /\ response' = [status |-> 200, body |-> [vector |-> bowVector(text)]]
    /\ invoked' = <<>>
    /\ UNCHANGED <<pc, file, docs, lineno, error, state>>

\* TruncatedSVD(n_components=n).fit_transform(X) of scikit-learn: for
\* 1 <= n < min(shape) the projection has one row per row of X and n columns;
\* outside that range the routine raises or, depending on the release,
\* returns a projection of some width up to n.  Entries are not modelled.
svdOutcomes(n, X) ==
    LET rows == Len(X)
        cols == IF rows = 0 THEN 0 ELSE Len(X[1])
        proj(k) == [i \in 1..rows |-> [c \in 1..k |-> "real"]]
    IN  IF n >= 1 /\ n < Min(rows, cols)
        THEN {[raised |-> FALSE, result |-> proj(n)]}
        ELSE IF n < 1 \/ rows = 0
        THEN {[raised |-> TRUE, result |-> <<>>]}
        ELSE {[raised |-> TRUE, result |-> <<>>]}
             \cup {[raised |-> FALSE, result |-> proj(k)] : k \in 1..n}

\* lsa keeping the projection in tfidf_matrix
lsaInPlace ==
    /\ pc = "ready"
    /\ request = NoRequest
    /\ \E n_components \in (0 - 1)..MaxComponents :
         /\ request' = [op |-> "lsa", n_components |-> n_components]
         /\ invoked' = <<"TruncatedSVD.fit_transform">>
         /\ \E out \in svdOutcomes(n_components, tfidf_matrix) :
              /\ response' = IF out.raised
                             THEN [status |-> 500, body |-> [detail |-> "Internal Server Error"]]
                             ELSE [status |-> 200, body |-> [matrix |-> out.result]]
              /\ tfidf_matrix' = IF out.raised THEN tfidf_matrix ELSE out.result
    /\ UNCHANGED <<pc, file, docs, lineno, error, documents, tokens, vocabulary,
                   doc_count, word_count, tf, df, idf>>

\* POST /lsa; an exception leaving the handler is answered with status 500
lsa ==
    /\ pc = "ready"
    /\ request = NoRequest
    /\ \E n_components \in (0 - 1)..MaxComponents :
         /\ request' = [op |-> "lsa", n_components |-> n_components]
         /\ invoked' = <<"TruncatedSVD.fit_transform">>
         /\ \E out \in svdOutcomes(n_components, tfidf_matrix) :
              response' = IF out.raised
                          THEN [status |-> 500, body |-> [detail |-> "Internal Server Error"]]
                          ELSE [status |-> 200, body |-> [matrix |-> out.result]]
    /\ UNCHANGED <<pc, file, docs, lineno, error, state>>

(* ------------------------ specification -------------------------------- *)
Init ==
    /\ pc = "open"
    /\ file = "unopened"
    /\ docs = <<>>
    /\ lineno = 0
    /\ error = "none"
    /\ documents = <<>>
    /\ tokens = <<>>
    /\ vocabulary = <<>>
    /\ doc_count = 0
    /\ word_count = 0
    /\ tf = <<>>
    /\ df = <<>>
    /\ idf = <<>>
    /\ tfidf_matrix = <<>>
    /\ request = NoRequest
    /\ response = NoResponse
    /\ invoked = <<>>

Next ==
    \/ OpenFile
    \/ ReadLine
    \/ ReadLineError
    \/ ReturnDocs
    \/ Tokenize
    \/ BuildVocabulary
    \/ ComputeTfDf
    \/ ComputeIdf
    \/ home
    \/ tf_idf
    \/ bag_of_words
    \/ lsa
    \/ Deliver

Spec == Init /\ [][Next]_vars

\* The preprocessing and TF-IDF code applied to any document list, documents
\* without a word included: the component contract of the TF-IDF engine.
InitEngine ==
    /\ pc = "tokenize"
    /\ file = "closed"
    /\ docs = <<>>
    /\ lineno = 0
    /\ error = "none"
    /\ documents \in SeqsUpTo(SeqsUpTo({"a", " "}, MaxLineLen), MaxLines)
    /\ tokens = <<>>
    /\ vocabulary = <<>>
    /\ doc_count = 0
    /\ word_count = 0
    /\ tf = <<>>
    /\ df = <<>>
    /\ idf = <<>>
    /\ tfidf_matrix = <<>>
    /\ request = NoRequest
    /\ response = NoResponse
    /\ invoked = <<>>

NextEngine ==
    \/ Tokenize
    \/ BuildVocabulary
    \/ ComputeTfDf
    \/ ComputeIdf

SpecEngine == InitEngine /\ [][NextEngine]_vars

TypeOK ==
    /\ pc \in {"open", "read", "tokenize", "vocabulary", "tf", "idf", "ready", "crashed"}
    /\ lineno \in 0..MaxLines

(* ------------------------ properties ----------------------------------- *)
\* the stages of the import at which a value has been assigned
vocabularyBuilt == pc \in {"tf", "idf", "ready"}
tfBuilt == pc \in {"idf", "ready"}

\* every token of the corpus, documents in corpus order, tokens in document order
RECURSIVE flatten(_)
flatten(toks) == IF toks = <<>> THEN <<>> ELSE Head(toks) \o flatten(Tail(toks))

firstIndex(l, x) == CHOOSE k \in 1..Len(l) : l[k] = x /\ \A m \in 1..(k - 1) : l[m] /= x

occurrences(l, x) == Cardinality({k \in 1..Len(l) : l[k] = x})

\* C1: the vocabulary has no duplicate terms, holds exactly the tokens that
\* occur in some tokenized document, and lists them in the order of their
\* first occurrence (documents in corpus order, tokens in document order).
C1_VocabularyFirstOccurrence ==
    vocabularyBuilt =>
      LET all == flatten(tokens)
      IN  /\ \A a, b \in 1..Len(vocabulary) : a /= b => vocabulary[a] /= vocabulary[b]
          /\ {vocabulary[j] : j \in 1..Len(vocabulary)} = {all[k] : k \in 1..Len(all)}
          /\ \A a, b \in 1..Len(vocabulary) :
               a < b => firstIndex(all, vocabulary[a]) < firstIndex(all, vocabulary[b])

\* a token occurs twice in the corpus and a later, different token follows it
C1_Witness ==
    /\ vocabularyBuilt
    /\ Len(vocabulary) >= 2
    /\ Len(flatten(tokens)) > Len(vocabulary)

\* C2: tf[i][j] is the number of occurrences of vocabulary[j] in document i
\* divided by the number of tokens of document i, so it lies in [0, 1], and a
\* document without any vocabulary term has an all-zero row.
C2_TermFrequency ==
    tfBuilt =>
      /\ Len(tf) = Len(tokens)
      /\ \A i \in 1..Len(tokens) :
           /\ Len(tf[i]) = Len(vocabulary)
           /\ \A j \in 1..Len(vocabulary) :
                /\ Len(tokens[i]) > 0 /\ tf[i][j][2] > 0
                /\ tf[i][j][1] * Len(tokens[i])
                     = occurrences(tokens[i], vocabulary[j]) * tf[i][j][2]
                /\ 0 <= tf[i][j][1] /\ tf[i][j][1] <= tf[i][j][2]
           /\ (\A j \in 1..Len(vocabulary) : ~contains(tokens[i], vocabulary[j]))
                => \A j \in 1..Len(vocabulary) : tf[i][j][1] = 0

\* a row holds a zero, a proper fraction and a whole
C2_Witness ==
    /\ tfBuilt
    /\ \E i \in 1..Len(tf) : \E j \in 1..Len(vocabulary) :
         tf[i][j][1] >= 1 /\ tf[i][j][1] < tf[i][j][2]
    /\ \E i \in 1..Len(tf) : \E j \in 1..Len(vocabulary) : tf[i][j][1] = 0
    /\ \E i \in 1..Len(tf) : \E j \in 1..Len(vocabulary) : tf[i][j][1] = 2

validComponents(n) == n >= 1 /\ n < Min(doc_count, word_count)

C4_ComponentsValidated ==
    (request.op = "lsa" /\ ~validComponents(request.n_components)) =>
      /\ response.status \in {400, 422}
      /\ invoked = <<>>

\* C5: the bag-of-words vector has the length of the vocabulary, entries 0 or
\* 1, and entry j is 1 exactly when vocabulary[j] is a whitespace-separated
\* token of the lowercased text; the empty text gives the all-zero vector.
isToken(w, text) ==
    \E a, b \in 1..Len(text) :
      /\ a <= b
      /\ \A k \in a..b : text[k] /= " "
      /\ a = 1 \/ text[a - 1] = " "
      /\ b = Len(text) \/ text[b + 1] = " "
      /\ w = [k \in 1..(b - a + 1) |-> IF text[a + k - 1] = "A" THEN "a" ELSE text[a + k - 1]]

fileUnreadable == file \in {"FileNotFoundError", "PermissionError", "UnicodeDecodeError"}

C6_UnreadableFileRecovered ==
    fileUnreadable =>
      /\ pc /= "crashed"
      /\ Len(documents) = 1 /\ documents[1] /= <<>>

C8_ProjectionAndVariance ==
    (request.op = "lsa" /\ validComponents(request.n_components)) =>
      /\ response.status = 200
      /\ DOMAIN response.body = {"matrix", "total_variance"}
      /\ Len(response.body.matrix) = doc_count
      /\ \A i \in 1..doc_count : Len(response.body.matrix[i]) = request.n_components

\* C9: df[j] is the number of documents whose tokens hold vocabulary[j] at
\* least once, so 1 <= df[j] <= doc_count.
C9_DocumentFrequency ==
    tfBuilt =>
      /\ Len(df) = Len(vocabulary)
      /\ \A j \in 1..Len(vocabulary) :
           /\ df[j] = Cardinality({i \in 1..Len(tokens) :
                                     occurrences(tokens[i], vocabulary[j]) >= 1})
           /\ 1 <= df[j] /\ df[j] <= doc_count

\* a term repeated inside one document, found in two documents, next to a
\* term found in one
C9_Witness ==
    /\ tfBuilt
    /\ \E j \in 1..Len(vocabulary) :
         /\ df[j] = 2
         /\ \E i \in 1..Len(tokens) : occurrences(tokens[i], vocabulary[j]) = 2
    /\ \E j \in 1..Len(vocabulary) : df[j] = 1

\* C10: idf[j] = ln((N + 1) / (df[j] + 1)) + 1 has an argument of at least 1,
\* so idf[j] >= 1 > 0, and idf does not increase with df: df[a] <= df[b]
\* implies idf[a] >= idf[b].  ln is increasing, so both are compared on the
\* arguments p / q of the logarithm.
C10_IdfPositiveMonotone ==
    pc = "ready" =>
      /\ Len(idf) = Len(vocabulary)
      /\ \A j \in 1..Len(vocabulary) :
           /\ idf[j][2] > 0
           /\ idf[j][1] * (df[j] + 1) = (doc_count + 1) * idf[j][2]
           /\ idf[j][1] >= idf[j][2]
      /\ \A a, b \in 1..Len(vocabulary) :
           df[a] <= df[b] => idf[a][1] * idf[b][2] >= idf[b][1] * idf[a][2]

\* two terms of different document frequency
C10_Witness ==
    /\ pc = "ready"
    /\ \E a, b \in 1..Len(vocabulary) : df[a] < df[b] /\ df[b] = doc_count

\* C11: every document load_corpus returns holds a non-blank character and
\* yields at least one token (blank lines are dropped, the placeholder is not
\* blank), so the TF loop divides by a token count of at least 1; a file
\* without a non-blank line gives zero documents and an empty vocabulary, and
\* the loop body does not run.
nonBlank(s) == \E k \in 1..Len(s) : s[k] \notin {" ", "\n"}

C11_DocumentsHaveTokens ==
    /\ pc = "read" => /\ Len(docs) <= lineno
                      /\ \A i \in 1..Len(docs) : nonBlank(docs[i])
    /\ \A i \in 1..Len(documents) :
         /\ nonBlank(documents[i])
         /\ documents[i][1] /= " " /\ documents[i][Len(documents[i])] /= " "
    /\ pc \in {"vocabulary", "tf", "idf", "ready"} =>
         /\ Len(tokens) = Len(documents)
         /\ \A i \in 1..Len(tokens) : Len(tokens[i]) >= 1
    /\ error /= "ZeroDivisionError"
    /\ tfBuilt => \A i \in 1..Len(tf) : \A j \in 1..Len(tf[i]) : tf[i][j][2] >= 1
    /\ (tfBuilt /\ documents = <<>>) =>
         /\ doc_count = 0 /\ vocabulary = <<>>
         /\ tf = <<>> /\ df = <<>>

\* a file of a blank line and a line whose two words are two blanks apart
C11_Witness ==
    /\ tfBuilt
    /\ file = "closed"
    /\ Len(documents) = 1
    /\ documents[1] = <<"a", " ", " ", "a">>
    /\ tf[1][1] = <<2, 2>>

\* a file of blank lines only: every line read was dropped
C11_BlankFileWitness ==
    /\ pc = "read"
    /\ lineno = MaxLines
    /\ docs = <<>>

====
